---------------------------- MODULE Spec2Model ----------------------------
(***************************************************************************)
(* Model of homeassistant/components/google/calendar.py: the calendar      *)
(* entity (GoogleCalendarEventDevice), its data object                     *)
(* (GoogleCalendarData) with the throttled update() and the paginated      *)
(* async_get_events(), and the remote calendar list service they query.    *)
(*                                                                         *)
(* Python values: a dict is a TLA+ record/function over string keys, a     *)
(* list is a sequence.  Python's None is written None where a string is    *)
(* expected (search text, page token) and NoneDict where a dict is         *)
(* expected (GoogleCalendarData.event, GoogleCalendarEventDevice._event,   *)
(* the params of a query that could not be prepared).                      *)
(* Time is counted in minutes.                                             *)
(***************************************************************************)
EXTENDS Integers, Sequences, FiniteSets, TLC

(***************************************************************************)
(* Bounds of the model.                                                    *)
(***************************************************************************)
\* The remote calendar answers a listing in at most MaxPages pages.
MaxPages == 2
\* A remote calendar listing holds at most MaxEvents items over all its pages.
MaxEvents == 3
\* The clock stops at MaxTime minutes.
MaxTime == 20
\* The clock advances TickMinutes minutes at a time.
TickMinutes == 10

(***************************************************************************)
(* Python values.                                                          *)
(***************************************************************************)
None == "None"
NoneDict == [none |-> TRUE]

\* dict.get(k, default)
Get(d, k, default) == IF k \in DOMAIN d THEN d[k] ELSE default

\* d[k] = v on a dict
Put(d, k, v) == [x \in (DOMAIN d) \cup {k} |-> IF x = k THEN v ELSE d[x]]

\* Truth value of a str | None (None and "" are false).
Truthy(s) == s # None /\ s # ""

\* datetime.isoformat("T"): date part, the separator, time part.
isoformat(t) == <<t \div 1440, "T", t % 1440>>

(***************************************************************************)
(* Module constants of calendar.py.                                        *)
(***************************************************************************)
DEFAULT_GOOGLE_SEARCH_PARAMS == [orderBy |-> "startTime", singleEvents |-> TRUE]

MIN_TIME_BETWEEN_UPDATES == 15

TRANSPARENCY == "transparency"

OPAQUE == "opaque"

\* params["maxResults"] = 100  # Page size
PageSize == 100

(***************************************************************************)
(* Events of the remote calendar.  EvA carries no transparency field, EvT  *)
(* is marked transparent, EvO opaque.  A summary is a sequence of words;   *)
(* "!!-10" is an offset tag ("!!" followed by a time).                     *)
(***************************************************************************)
EvA == [id |-> 1, summary |-> <<"standup">>, start |-> 5]

EvT == [id |-> 2, summary |-> <<"lunch", "!!-5">>, start |-> 10,
        transparency |-> "transparent"]

EvO == [id |-> 3, summary |-> <<"review", "!!-10">>, start |-> 20,
        transparency |-> "opaque"]

Events == {EvA, EvT, EvO}

Entities == {"e1", "e2"}

\* The search texts an entity may be configured with (CONF_SEARCH).
SearchTexts == {None, "", "meeting"}

\* The windows async_get_events is asked for: <<start_date, end_date>>.
Windows == {<<0, 1440>>, <<1440, 2890>>}

\* Reachability of the remote service during one operation step: reachable,
\* unreachable when the service handle is obtained (calendar_service.get()
\* raises ServerNotFoundError), or unreachable when a list request is
\* executed (execute() raises ServerNotFoundError).
Networks == {"up", "down_at_get", "down_at_execute"}

(***************************************************************************)
(* The remote calendar: the pages of its listing.  A page is the response  *)
(* dict {kind, items?, nextPageToken?}.                                    *)
(***************************************************************************)
PageTokens == <<"tokA", "tokB", "tokC", "tokD">>

ItemLists(m) == UNION {[1..n -> Events] : n \in 0..m}

\* The response dicts carrying `items` and token `tok` (None: no token key).
\* An empty item list may also come as a response without the "items" key.
Pages(items, tok) ==
    LET base == IF tok = None THEN [kind |-> "calendar#events"]
                ELSE [kind |-> "calendar#events", nextPageToken |-> tok]
    IN  {Put(base, "items", items)} \cup (IF items = <<>> THEN {base} ELSE {})

\* Listings of at most p pages, from page number i on, holding at most m
\* items: every page but the last carries a continuation token (a distinct
\* one per page), the last carries none or an empty one.
RECURSIVE Calendars(_, _, _)
Calendars(i, p, m) ==
    LET last == UNION {Pages(items, None) \cup Pages(items, "") :
                           items \in ItemLists(m)}
        more == IF p <= 1 THEN {}
                ELSE UNION {UNION {{<<pg>> \o rest :
                                       rest \in Calendars(i + 1, p - 1, m - Len(items))} :
                                   pg \in Pages(items, PageTokens[i])} :
                            items \in ItemLists(m)}
    IN  {<<pg>> : pg \in last} \cup more

AllItems(cal) ==
    LET RECURSIVE Cat(_)
        Cat(k) == IF k > Len(cal) THEN <<>>
                  ELSE Get(cal[k], "items", <<>>) \o Cat(k + 1)
    IN  Cat(1)

\* What the service answers to an orderBy=startTime listing when it follows
\* its protocol: items present, in increasing start order, no final token.
WellFormed(cal) ==
    /\ \A k \in 1..Len(cal) : "items" \in DOMAIN cal[k]
    /\ "nextPageToken" \notin DOMAIN cal[Len(cal)]
    /\ \A a, b \in 1..Len(AllItems(cal)) :
           a < b => AllItems(cal)[a].start < AllItems(cal)[b].start

AllCalendars == Calendars(1, MaxPages, MaxEvents)

PollCalendars == {cal \in AllCalendars : WellFormed(cal)}

VARIABLES
    now,             \* the clock (dt.now()), minutes
    cfg,             \* entity -> configuration
    remote,          \* the remote calendar's listing (sequence of pages)
    event,           \* entity -> GoogleCalendarData.event
    throttle,        \* entity -> <<>> or <<time of the last run of update>>
    dev_event,       \* entity -> GoogleCalendarEventDevice._event
    offset_reached,  \* entity -> GoogleCalendarEventDevice._offset_reached
    call,            \* the async_get_events coroutine in flight
    last             \* the last operation step: what was called, what it sent

vars == <<now, cfg, remote, event, throttle, dev_event, offset_reached, call, last>>

(***************************************************************************)
(* GoogleCalendarData: query construction, filter, remote call.            *)
(***************************************************************************)
\* Variant of _prepare_query that sets q without testing self.search.
prepare_query_always_q(c, net) ==
    IF net = "down_at_get" THEN [service |-> FALSE, params |-> NoneDict]
    ELSE [service |-> TRUE,
          params |-> Put(Put(Put(DEFAULT_GOOGLE_SEARCH_PARAMS, "calendarId",
                                 c.calendar_id), "maxResults", PageSize),
                         "q", c.search)]

\* GoogleCalendarData._prepare_query: <<service, params>>, or <<None, None>>
\* when calendar_service.get() raises ServerNotFoundError.
prepare_query(c, net) ==
    IF net = "down_at_get" THEN [service |-> FALSE, params |-> NoneDict]
    ELSE LET p0 == Put(DEFAULT_GOOGLE_SEARCH_PARAMS, "calendarId", c.calendar_id)
             p1 == Put(p0, "maxResults", PageSize)
         IN  [service |-> TRUE,
              params |-> IF Truthy(c.search) THEN Put(p1, "q", c.search) ELSE p1]

\* Variant of _event_filter that reads event[TRANSPARENCY] without the
\* OPAQUE default.
event_filter_no_default(ignore_availability, ev) ==
    IF ignore_availability THEN TRUE
    ELSE TRANSPARENCY \in DOMAIN ev /\ ev[TRANSPARENCY] = OPAQUE

\* GoogleCalendarData._event_filter
event_filter(ignore_availability, ev) ==
    IF ignore_availability THEN TRUE
    ELSE Get(ev, TRANSPARENCY, OPAQUE) = OPAQUE

\* filter(self._event_filter, items)
visible(ignore_availability, items) ==
    SelectSeq(items, LAMBDA ev : event_filter(ignore_availability, ev))

\* events.list(**params).execute() on a reachable service: the page the
\* remote calendar serves for the request's pageToken.
execute(params) ==
    LET tok == Get(params, "pageToken", None)
        prev == {i \in 1..(Len(remote) - 1) :
                     Get(remote[i], "nextPageToken", None) = tok}
    IN  IF tok = None THEN remote[1]
        ELSE IF prev = {} THEN [kind |-> "calendar#events"]
        ELSE remote[(CHOOSE i \in prev : \A j \in prev : i <= j) + 1]

\* Variant of update that caches the first item of the response unfiltered.
update_first_item(c, cached, t, net) ==
    LET q == prepare_query(c, net)
        params == Put(q.params, "timeMin", isoformat(t))
    IN  IF ~q.service
        THEN [event |-> cached, raised |-> FALSE, sent |-> <<>>]
        ELSE IF net = "down_at_execute"
        THEN [event |-> cached, raised |-> TRUE, sent |-> <<params>>]
        ELSE LET items == Get(execute(params), "items", <<>>)
             IN  [event |-> IF items = <<>> THEN NoneDict ELSE Head(items),
                  raised |-> FALSE, sent |-> <<params>>]

\* Variant of update that drops the cached event when no service handle
\* could be obtained.
update_clears_on_error(c, cached, t, net) ==
    LET q == prepare_query(c, net)
        params == Put(q.params, "timeMin", isoformat(t))
    IN  IF ~q.service
        THEN [event |-> NoneDict, raised |-> FALSE, sent |-> <<>>]
        ELSE IF net = "down_at_execute"
        THEN [event |-> cached, raised |-> TRUE, sent |-> <<params>>]
        ELSE LET items == Get(execute(params), "items", <<>>)
                 valid_events == visible(c.ignore_availability, items)
             IN  [event |-> IF valid_events = <<>> THEN NoneDict
                            ELSE Head(valid_events),
                  raised |-> FALSE, sent |-> <<params>>]

\* The body of GoogleCalendarData.update at time t: the cached event after
\* the call, whether ServerNotFoundError left the call, the requests sent.
update(c, cached, t, net) ==
    LET q == prepare_query(c, net)
        params == Put(q.params, "timeMin", isoformat(t))
    IN  IF ~q.service
        THEN [event |-> cached, raised |-> FALSE, sent |-> <<>>]
        ELSE IF net = "down_at_execute"
        THEN [event |-> cached, raised |-> TRUE, sent |-> <<params>>]
        ELSE LET items == Get(execute(params), "items", <<>>)
                 valid_events == visible(c.ignore_availability, items)
             IN  [event |-> IF valid_events = <<>> THEN NoneDict
                            ELSE Head(valid_events),
                  raised |-> FALSE, sent |-> <<params>>]

(***************************************************************************)
(* The host's Throttle decorator and calendar helpers.                     *)
(***************************************************************************)
\* Throttle(min_time): a call at time t is a no-op unless the method never
\* ran or more than min_time passed since it last ran.
Throttle(min_time, stamp, t) ==
    stamp # <<>> /\ t - stamp[1] <= min_time

\* Throttle: the time of the last run it holds after a call at time t.
ThrottleStamp(stamp, t, throttled) == IF throttled THEN stamp ELSE <<t>>

\* Variant of update without the decorator: no call is throttled.
update_unthrottled(stamp, t) == FALSE

\* @Throttle(MIN_TIME_BETWEEN_UPDATES) on GoogleCalendarData.update: whether
\* a call at time t is throttled.
update_throttled(stamp, t) == Throttle(MIN_TIME_BETWEEN_UPDATES, stamp, t)

\* The offset tags a summary word may be, with the offset in minutes.
TagMinutes == [w \in {"!!-5", "!!-10"} |-> IF w = "!!-5" THEN -5 ELSE -10]

\* calculate_offset(event, offset): strips the offset tag from the summary
\* and records offset_time (0 without a tag).
calculate_offset(ev, offset) ==
    LET summary == Get(ev, "summary", <<>>)
        tags == {i \in 1..Len(summary) : summary[i] \in DOMAIN TagMinutes}
    IN  IF offset = "!!" /\ tags # {}
        THEN LET i == CHOOSE k \in tags : \A j \in tags : k <= j
             IN  Put(Put(ev, "summary",
                         SubSeq(summary, 1, i - 1) \o SubSeq(summary, i + 1, Len(summary))),
                     "offset_time", TagMinutes[summary[i]])
        ELSE Put(ev, "offset_time", 0)

\* is_offset_reached(event) at time t
is_offset_reached(ev, t) ==
    ev.offset_time # 0 /\ ev.start + ev.offset_time <= t

(***************************************************************************)
(* GoogleCalendarEventDevice.update after self.data.update() returned:     *)
(* the data object's event (calculate_offset works on the deep copy, so    *)
(* the cached dict is left as it is), _event and _offset_reached.          *)
(* The variant device_update_no_copy hands the cached dict itself to       *)
(* calculate_offset (no copy.deepcopy), which then changes it in place.    *)
(***************************************************************************)
device_update_no_copy(cached, offset, reached, t) ==
    IF cached = NoneDict
    THEN [data_event |-> cached, event |-> NoneDict, offset_reached |-> reached]
    ELSE LET ev == calculate_offset(cached, offset)
         IN  [data_event |-> ev, event |-> ev,
              offset_reached |-> is_offset_reached(ev, t)]

device_update(cached, offset, reached, t) ==
    IF cached = NoneDict
    THEN [data_event |-> cached, event |-> NoneDict, offset_reached |-> reached]
    ELSE LET ev == calculate_offset(cached, offset)
         IN  [data_event |-> cached, event |-> ev,
              offset_reached |-> is_offset_reached(ev, t)]

(***************************************************************************)
(* State.                                                                  *)
(***************************************************************************)
\* No async_get_events in flight.  A call in flight holds its arguments
\* (entity, window), its locals (params, page_token, event_list) and the
\* list requests it sent so far.
Idle == [pc |-> "idle", entity |-> "", window |-> <<0, 0>>, params |-> NoneDict,
         page_token |-> None, event_list |-> <<>>, sent |-> <<>>]

Step(op, e, net, outcome, sent) ==
    [op |-> op, entity |-> e, net |-> net, outcome |-> outcome, sent |-> sent]

Config(id, search, ignore) ==
    [calendar_id |-> id, search |-> search, ignore_availability |-> ignore,
     offset |-> "!!"]

InitEntities ==
    /\ now = 0
    /\ event = [e \in Entities |-> NoneDict]
    /\ throttle = [e \in Entities |-> <<>>]
    /\ dev_event = [e \in Entities |-> NoneDict]
    /\ offset_reached = [e \in Entities |-> FALSE]
    /\ call = Idle
    /\ last = Step("init", "", "up", "init", <<>>)

\* Two entities: one filters by availability and searches, one does neither.
\* The remote calendar follows its protocol.
Init ==
    /\ InitEntities
    /\ cfg = [e \in Entities |-> IF e = "e1" THEN Config("cal1", "meeting", FALSE)
                                 ELSE Config("cal2", None, TRUE)]
    /\ remote \in PollCalendars

\* The ranged fetch alone, against any listing and any configuration of
\* entity e1.
InitFetch ==
    /\ InitEntities
    /\ \E s \in SearchTexts, ign \in BOOLEAN :
           cfg = [e \in Entities |-> IF e = "e1" THEN Config("cal1", s, ign)
                                     ELSE Config("cal2", None, TRUE)]
    /\ remote \in AllCalendars

(***************************************************************************)
(* Operations.                                                             *)
(***************************************************************************)
\* Time passes.
Tick ==
    /\ now + TickMinutes <= MaxTime
    /\ now' = now + TickMinutes
    /\ last' = Step("tick", "", "up", "tick", <<>>)
    /\ UNCHANGED <<cfg, remote, event, throttle, dev_event, offset_reached, call>>

\* An event is deleted from the remote calendar.
EventRemoved ==
    /\ \E k \in 1..Len(remote) : \E i \in 1..Len(remote[k]["items"]) :
           remote' = [remote EXCEPT ![k] =
                          Put(@, "items", SubSeq(@["items"], 1, i - 1)
                                          \o SubSeq(@["items"], i + 1, Len(@["items"])))]
    /\ last' = Step("remote", "", "up", "removed", <<>>)
    /\ UNCHANGED <<now, cfg, event, throttle, dev_event, offset_reached, call>>

\* The host calls GoogleCalendarEventDevice.update of entity e: the throttled
\* GoogleCalendarData.update, then the refresh of _event and _offset_reached
\* (skipped when the data update raised).
Update(e) ==
    \E net \in Networks :
        LET gated == update_throttled(throttle[e], now)
            r == IF gated
                 THEN [event |-> event[e], raised |-> FALSE, sent |-> <<>>]
                 ELSE update(cfg[e], event[e], now, net)
            d == device_update(r.event, cfg[e].offset, offset_reached[e], now)
            outcome == IF gated THEN "throttled"
                       ELSE IF r.raised THEN "raised"
                       ELSE IF r.sent = <<>> THEN "no_service"
                       ELSE "polled"
        IN  /\ throttle' = [throttle EXCEPT ![e] = ThrottleStamp(@, now, gated)]
            /\ event' = [event EXCEPT ![e] = IF r.raised THEN r.event
                                             ELSE d.data_event]
            /\ dev_event' = [dev_event EXCEPT ![e] = IF r.raised THEN @
                                                     ELSE d.event]
            /\ offset_reached' = [offset_reached EXCEPT ![e] =
                                      IF r.raised THEN @ ELSE d.offset_reached]
            /\ last' = Step("update", e, net, outcome, r.sent)
            /\ UNCHANGED <<now, cfg, remote, call>>

\* Variant of async_get_events_page that assigns the page's visible items
\* to event_list instead of extending it.
async_get_events_page_overwrite(ignore_availability, params, page_token, event_list, net) ==
    LET p == Put(params, "pageToken", page_token)
    IN  IF net = "down_at_execute"
        THEN [raised |-> TRUE, params |-> p, event_list |-> event_list,
              page_token |-> page_token]
        ELSE LET result == execute(p)
             IN  [raised |-> FALSE, params |-> p,
                  event_list |-> visible(ignore_availability,
                                         Get(result, "items", <<>>)),
                  page_token |-> Get(result, "nextPageToken", None)]

\* One request of the paginated fetch: GoogleCalendarData.async_get_events_page.
\* Returns the next page token; params and event_list are updated in place.
async_get_events_page(ignore_availability, params, page_token, event_list, net) ==
    LET p == Put(params, "pageToken", page_token)
    IN  IF net = "down_at_execute"
        THEN [raised |-> TRUE, params |-> p, event_list |-> event_list,
              page_token |-> page_token]
        ELSE LET result == execute(p)
                 items == Get(result, "items", <<>>)
             IN  [raised |-> FALSE, params |-> p,
                  event_list |-> event_list \o visible(ignore_availability, items),
                  page_token |-> Get(result, "nextPageToken", None)]

\* Variant of the loop test that stops only on None (`if page_token is None`).
more_pages_not_none(page_token) == page_token # None

\* The loop of async_get_events goes on while the page returned a token
\* (`if not page_token: break`).
more_pages(page_token) == Truthy(page_token)

\* The host calls async_get_events(start_date, end_date) of entity e: the
\* query is prepared; without a service handle the call returns [].
GetEvents(e, w) ==
    /\ call.pc # "page"
    /\ \E net \in {"up", "down_at_get"} :
           LET q == prepare_query(cfg[e], net)
               params == Put(Put(q.params, "timeMin", isoformat(w[1])),
                             "timeMax", isoformat(w[2]))
           IN  /\ call' = IF ~q.service
                          THEN [Idle EXCEPT !.pc = "done", !.entity = e,
                                            !.window = w]
                          ELSE [Idle EXCEPT !.pc = "page", !.entity = e,
                                            !.window = w, !.params = params]
               /\ last' = Step("get_events", e, net,
                               IF q.service THEN "started" ELSE "no_service", <<>>)
    /\ UNCHANGED <<now, cfg, remote, event, throttle, dev_event, offset_reached>>

\* One turn of the while loop of async_get_events.
GetEventsPage ==
    /\ call.pc = "page"
    /\ \E net \in {"up", "down_at_execute"} :
           LET r == async_get_events_page(cfg[call.entity].ignore_availability,
                                          call.params, call.page_token,
                                          call.event_list, net)
           IN  /\ call' = [call EXCEPT
                              !.pc = IF r.raised THEN "raised"
                                     ELSE IF ~more_pages(r.page_token) THEN "done"
                                     ELSE "page",
                              !.params = r.params,
                              !.page_token = r.page_token,
                              !.event_list = r.event_list,
                              !.sent = Append(@, r.params)]
               /\ last' = Step("get_events_page", call.entity, net,
                               IF r.raised THEN "raised" ELSE "page", <<r.params>>)
    /\ UNCHANGED <<now, cfg, remote, event, throttle, dev_event, offset_reached>>

Next ==
    \/ Tick
    \/ \E e \in Entities : Update(e)
    \/ \E e \in Entities, w \in Windows : GetEvents(e, w)
    \/ GetEventsPage

\* The operations of the program, interleaved, over a calendar that stays
\* as it is.
Spec == Init /\ [][Next]_vars

\* The polling cache alone, over a calendar that loses events.
NextPoll ==
    \/ Tick
    \/ EventRemoved
    \/ \E e \in Entities : Update(e)

SpecPoll == Init /\ [][NextPoll]_vars

NextFetch ==
    \/ \E e \in Entities, w \in Windows : GetEvents(e, w)
    \/ GetEventsPage

SpecFetch == InitFetch /\ [][NextFetch]_vars

(***************************************************************************)
(* Properties of the ranged fetch (checked under SpecFetch).               *)
(***************************************************************************)
\* The items of the pages the remote served to the first n requests of the
\* call in flight.
RECURSIVE Served(_)
Served(n) ==
    IF n = 0 THEN <<>>
    ELSE Served(n - 1) \o Get(execute(call.sent[n]), "items", <<>>)

\* The number of requests of the call in flight that were answered.
Answered == IF call.pc = "raised" THEN Len(call.sent) - 1 ELSE Len(call.sent)

\* The transparency an event counts with: its field, opaque without one.
TransparencyOf(ev) ==
    IF "transparency" \in DOMAIN ev THEN ev["transparency"] ELSE "opaque"

\* C1: the visibility filter keeps an event iff ignore_availability is true
\* or the event's transparency is "opaque", an event without the field
\* counting as opaque: of the items served so far, the fetch has collected
\* exactly those, so without ignore_availability a transparent event is
\* dropped and an event without the field kept, and with it all are kept.
FilterKeepsOpaqueOrIgnored ==
    call.pc # "idle" =>
        call.event_list =
            SelectSeq(Served(Answered),
                      LAMBDA ev : \/ cfg[call.entity].ignore_availability
                                  \/ TransparencyOf(ev) = "opaque")

\* C1 witness: a finished fetch without ignore_availability that kept an
\* event without transparency field and dropped a transparent one.
FilterWitness ==
    /\ call.pc = "done"
    /\ ~cfg[call.entity].ignore_availability
    /\ \E i \in 1..Len(call.event_list) : call.event_list[i] = EvA
    /\ \E i \in 1..Len(Served(Answered)) : Served(Answered)[i] = EvT
    /\ \A i \in 1..Len(call.event_list) : call.event_list[i] # EvT

\* C2: when the remote answers in pages P1..Pn (all but the last carrying a
\* token), a fetch that returns has collected the concatenation of the
\* pages' items, restricted to the visible ones, in order.
PagesConcatenated ==
    (call.pc = "done" /\ call.sent # <<>>) =>
        call.event_list =
            visible(cfg[call.entity].ignore_availability, AllItems(remote))

\* C2 witness: a finished fetch over two pages that both contributed items,
\* with some item filtered out.
PagesWitness ==
    /\ call.pc = "done"
    /\ Len(remote) = 2
    /\ Len(call.sent) = 2
    /\ visible(cfg[call.entity].ignore_availability,
               Get(remote[1], "items", <<>>)) # <<>>
    /\ visible(cfg[call.entity].ignore_availability,
               Get(remote[2], "items", <<>>)) # <<>>
    /\ Len(call.event_list) < Len(AllItems(remote))

\* C5 (as claimed): whenever the remote is unreachable during get_events,
\* at the service handle or at a page request, the call returns [] and no
\* error leaves it.
UnreachableFetchReturnsEmpty ==
    (last.op \in {"get_events", "get_events_page"} /\ last.net # "up") =>
        (call.pc = "done" /\ call.event_list = <<>>)

\* C6: every list request of get_events carries the entity's calendarId,
\* orderBy=startTime, singleEvents=true, maxResults=100, the window as
\* timeMin/timeMax, and q exactly when a non-empty search is configured.
RequestParameters ==
    \A i \in 1..Len(call.sent) :
        LET p == call.sent[i]
            c == cfg[call.entity]
            searching == c.search # None /\ c.search # ""
        IN  /\ DOMAIN p = {"calendarId", "orderBy", "singleEvents", "maxResults",
                           "timeMin", "timeMax", "pageToken"}
                              \cup (IF searching THEN {"q"} ELSE {})
            /\ p["calendarId"] = c.calendar_id
            /\ p["orderBy"] = "startTime"
            /\ p["singleEvents"] = TRUE
            /\ p["maxResults"] = 100
            /\ p["timeMin"] = isoformat(call.window[1])
            /\ p["timeMax"] = isoformat(call.window[2])
            /\ searching => p["q"] = c.search

\* C6 witness: a request was sent for an entity with a search text, and it
\* carries q.
RequestWitness ==
    /\ call.sent # <<>>
    /\ cfg[call.entity].search = "meeting"
    /\ "q" \in DOMAIN call.sent[1]
    /\ call.window = <<1440, 2890>>

\* The token of the page served to the i-th request of the call in flight.
TokenOf(i) == Get(execute(call.sent[i]), "nextPageToken", None)

\* C8: the first request carries no token, every later one the token of the
\* page before it, the fetch stops right after the first page without a
\* (non-empty) token, and it ends after one request per page: while it
\* pages it has sent fewer requests than the remote has pages.
TokenChain ==
    LET n == Len(call.sent)
    IN  /\ n >= 1 => call.sent[1]["pageToken"] = None
        /\ \A i \in 2..n : /\ call.sent[i]["pageToken"] = TokenOf(i - 1)
                           /\ TokenOf(i - 1) \notin {None, ""}
        /\ (call.pc = "page" /\ n >= 1) => TokenOf(n) \notin {None, ""}
        /\ call.pc = "page" => n < Len(remote)
        /\ (call.pc = "done" /\ n >= 1) =>
               (TokenOf(n) \in {None, ""} /\ n = Len(remote))

\* C8 witness: a fetch that ended after two requests, the last page carrying
\* an empty token.
TokenWitness ==
    /\ call.pc = "done"
    /\ Len(call.sent) = 2
    /\ call.sent[2]["pageToken"] = "tokA"
    /\ TokenOf(2) = ""

(***************************************************************************)
(* Properties of the polling cache (checked under SpecPoll).               *)
(***************************************************************************)
\* C3: update() is gated by a 15-minute interval per entity.  For a call of
\* update of entity e, with the time of the last call that was let through:
\* within the interval the call sends nothing and leaves the cached event
\* as it was; after the interval (or with no call before) the call is let
\* through and, the service being reachable, sends one query for the
\* current time; and a call that sends a query is never less than the
\* interval after the last call let through, and becomes that call.
ThrottleGate ==
    [][\A e \in Entities :
          (last'.op = "update" /\ last'.entity = e) =>
              LET stamp == throttle[e]
              IN  /\ (stamp # <<>> /\ now - stamp[1] < 15) =>
                         /\ last'.outcome = "throttled"
                         /\ last'.sent = <<>>
                         /\ event'[e] = event[e]
                  /\ (stamp = <<>> \/ now - stamp[1] > 15) =>
                         /\ last'.outcome # "throttled"
                         /\ last'.net = "up" =>
                                /\ Len(last'.sent) = 1
                                /\ last'.sent[1]["timeMin"] = isoformat(now)
                  /\ last'.sent # <<>> =>
                         /\ Len(last'.sent) = 1
                         /\ (stamp = <<>> \/ now - stamp[1] >= 15)
                         /\ throttle'[e] = <<now>>]_vars

\* C3 witness: a call within the interval of a poll that cached an event
\* was throttled.
ThrottleWitness ==
    /\ last.op = "update"
    /\ last.outcome = "throttled"
    /\ now > 0
    /\ throttle[last.entity] = <<0>>
    /\ event[last.entity] # NoneDict

\* C4 (as claimed): when the remote is unreachable during update(), the call
\* returns without raising and the cached events are what they were.
UnreachableUpdateIsQuiet ==
    [][(last'.op = "update" /\ last'.net # "up") =>
           (last'.outcome # "raised" /\ event' = event)]_vars

\* The first item of a response that passes the visibility filter.
RECURSIVE FirstPassing(_, _)
FirstPassing(ignore_availability, items) ==
    IF items = <<>> THEN NoneDict
    ELSE IF event_filter(ignore_availability, Head(items)) THEN Head(items)
    ELSE FirstPassing(ignore_availability, Tail(items))

\* C7: a real poll sends one list request with timeMin = now and caches the
\* first item of the response that passes the filter, none if none passes:
\* one event, never a list.
RealPollCachesFirstVisible ==
    (last.op = "update" /\ last.outcome = "polled") =>
        LET e == last.entity
        IN  /\ Len(last.sent) = 1
            /\ last.sent[1]["timeMin"] = isoformat(now)
            /\ event[e] = FirstPassing(cfg[e].ignore_availability,
                                       Get(execute(last.sent[1]), "items", <<>>))
            /\ event[e] \in Events \cup {NoneDict}

\* C7 witness: a poll whose response starts with an item that does not pass
\* cached a later one.
RealPollWitness ==
    /\ last.op = "update"
    /\ last.outcome = "polled"
    /\ last.entity = "e1"
    /\ Len(remote[1]["items"]) = 2
    /\ remote[1]["items"][1] = EvT
    /\ event["e1"] = EvO

\* C10: the entity's exposed event is none exactly when the cached event is
\* none, and otherwise the cached event with the offset applied, the cached
\* event being an unmodified item of the calendar; an update that returns
\* recomputes offset_reached when the cached event is not none and keeps it
\* otherwise.
DeviceEventMirrorsCache ==
    /\ [](\A e \in Entities :
              /\ dev_event[e] = NoneDict <=> event[e] = NoneDict
              /\ event[e] # NoneDict =>
                     /\ event[e] \in Events
                     /\ dev_event[e] = calculate_offset(event[e], cfg[e].offset)
                     /\ dev_event[e] # event[e])
    /\ [][\A e \in Entities :
              (last'.op = "update" /\ last'.entity = e /\ last'.outcome # "raised") =>
                  offset_reached'[e] =
                      IF event'[e] = NoneDict THEN offset_reached[e]
                      ELSE is_offset_reached(dev_event'[e], now)]_vars

\* C10 witness: an update found the cache empty and kept an offset_reached
\* flag that an earlier update had set.
DeviceWitness ==
    /\ last.op = "update"
    /\ last.outcome = "polled"
    /\ event[last.entity] = NoneDict
    /\ dev_event[last.entity] = NoneDict
    /\ offset_reached[last.entity]

(***************************************************************************)
(* Frame of the cached event (checked under Spec).                         *)
(***************************************************************************)
\* C9: the cached event of an entity changes only in a real poll of that
\* entity's update(); get_events, throttled or unreachable updates and the
\* operations on another entity leave it as it is.
CacheChangesOnlyInOwnPoll ==
    [][\A e \in Entities :
          event'[e] # event[e] =>
              (last'.op = "update" /\ last'.entity = e /\ last'.outcome = "polled")]_vars

\* C9 witness: a fetch of an entity completed with items while that entity
\* held a cached event and the other entity held none.
CacheFrameWitness ==
    /\ last.op = "get_events_page"
    /\ call.pc = "done"
    /\ call.entity = "e1"
    /\ call.event_list # <<>>
    /\ event["e1"] # NoneDict
    /\ event["e2"] = NoneDict

=============================================================================
